---- MODULE Spec2Model ----
(***************************************************************************)
(* A model of src/app.py: audio file -> chunks -> per-chunk transcription  *)
(* -> one SRT file.                                                        *)
(*                                                                         *)
(* Strings are sequences of one-character strings.  Python floats that     *)
(* hold times are modelled as exact rationals: a time is an integer number *)
(* of ticks, TicksPerMs ticks to the millisecond, so that times with a     *)
(* sub-millisecond fraction exist; binary floating-point rounding error is *)
(* not modelled.                                                           *)
(***************************************************************************)
EXTENDS Integers, Sequences, FiniteSets, TLC

VARIABLES
    pc,                     \* position of the running function
    chunks,                 \* transcribe_audio_chunks: its argument, the len() of each chunk (ms)
    i,                      \* transcribe_audio_chunks: the loop index (0-based)
    transcription_result,   \* transcribe_audio_chunks: list of per-chunk SRT strings
    cumulative_start_time,  \* transcribe_audio_chunks: running offset (ms)
    brk,                    \* the except clause ran: `break` is pending behind `finally`
    tempFiles,              \* file system: the paths of the temp chunk files present
    outFile,                \* file system: the output SRT file
    log,                    \* what print() wrote to the console
    retval,                 \* what the function returned
    trace,                  \* history: what happened to each chunk, in order
    entries,                \* history: the values parse_verbose_json_to_srt computed per segment
    driver,                 \* speechRecognize: its inputs and the files it made
    split,                  \* split_audio: its arguments and result
    fmt,                    \* format_time: its argument and result
    prev                    \* history: the run before this one, when it is a second run

vars == <<pc, chunks, i, transcription_result, cumulative_start_time, brk,
          tempFiles, outFile, log, retval, trace, entries, driver, split, fmt, prev>>

orchVars == <<chunks, i, transcription_result, cumulative_start_time, brk,
              tempFiles, outFile, log, retval, trace, entries>>

(***************************************************************************)
(* Bounds of the model.                                                    *)
(***************************************************************************)
TicksPerMs == 3     \* resolution of a modelled float time: 1/TicksPerMs ms
MaxChunks == 3      \* longest chunk list handed to transcribe_audio_chunks
MaxHours == 123     \* largest hour count format_time is applied to
MaxDur == 6         \* longest buffer (ms) handed to split_audio
MaxBytes == 5       \* largest |max_chunk_size| handed to split_audio

(***************************************************************************)
(* Program constant.                                                       *)
(***************************************************************************)
MAX_CHUNK_SIZE == 25165824

NL == "\n"
None == "None"

\* what a call has returned so far: nothing yet, None, or an exception
PendingRet == [kind |-> "pending"]
NoneRet == [kind |-> "None"]
ExceptionRet == [kind |-> "exception"]

(***************************************************************************)
(* Strings.                                                                *)
(***************************************************************************)
DigitChars == <<"0", "1", "2", "3", "4", "5", "6", "7", "8", "9">>

RECURSIVE Str(_)
\* str(n) / f"{n}" for an int n >= 0
Str(n) == IF n < 10 THEN <<DigitChars[n + 1]>>
          ELSE Str(n \div 10) \o <<DigitChars[(n % 10) + 1]>>

\* f"{n:0w}": zero-padded to at least w characters, never cut
ZeroPad(n, w) ==
    LET s == Str(n)
    IN IF Len(s) >= w THEN s ELSE [k \in 1..(w - Len(s)) |-> "0"] \o s

RECURSIVE Join(_, _)
\* sep.join(parts)
Join(parts, sep) ==
    IF Len(parts) = 0 THEN <<>>
    ELSE IF Len(parts) = 1 THEN parts[1]
    ELSE parts[1] \o sep \o Join(Tail(parts), sep)

IsSpace(c) == c \in {" ", NL}

RECURSIVE LStrip(_)
LStrip(s) == IF Len(s) > 0 /\ IsSpace(s[1]) THEN LStrip(Tail(s)) ELSE s

RECURSIVE RStrip(_)
RStrip(s) == IF Len(s) > 0 /\ IsSpace(s[Len(s)]) THEN RStrip(SubSeq(s, 1, Len(s) - 1)) ELSE s

\* str.strip()
Strip(s) == RStrip(LStrip(s))

(***************************************************************************)
(* format_time.  The argument is a float number of milliseconds, here t    *)
(* ticks.  int() of a non-negative float is the floor, % is Python's.      *)
(***************************************************************************)
FmtHours(t) == t \div (3600000 * TicksPerMs)
FmtMinutesNoMod(t) == t \div (60000 * TicksPerMs)
FmtMinutes(t) == (t % (3600000 * TicksPerMs)) \div (60000 * TicksPerMs)
FmtSecondsNoMod(t) == t \div (1000 * TicksPerMs)
FmtSeconds(t) == (t % (60000 * TicksPerMs)) \div (1000 * TicksPerMs)
FmtMillis(t) == (t % (1000 * TicksPerMs)) \div TicksPerMs

format_time(t) ==
    ZeroPad(FmtHours(t), 2) \o <<":">> \o ZeroPad(FmtMinutes(t), 2) \o <<":">>
        \o ZeroPad(FmtSeconds(t), 2) \o <<",">> \o ZeroPad(FmtMillis(t), 3)

(***************************************************************************)
(* parse_verbose_json_to_srt.  A response is the sequence of its segments, *)
(* a segment is [start, end, text] with start and end in ticks             *)
(* (segment.start * 1000 is a float number of milliseconds).               *)
(***************************************************************************)
\* lines 38-39: segment.start * 1000 + start_time_offset, in ticks
SegTimeNoOffset(t, offset) == t
SegTime(t, offset) == t + offset * TicksPerMs

\* lines 34 and 48: the index of the k-th segment of one response
SubtitleIndex(k) == k

\* lines 40-45: one SRT entry
SrtEntry(k, seg, offset) ==
    Str(SubtitleIndex(k)) \o <<NL>>
        \o format_time(SegTime(seg.start, offset))
        \o <<" ", "-", "-", ">", " ">>
        \o format_time(SegTime(seg.end, offset)) \o <<NL>>
        \o Strip(seg.text) \o <<NL>>

parse_verbose_json_to_srt(response, offset) ==
    Join([k \in 1..Len(response) |-> SrtEntry(k, response[k], offset)], <<NL>>)

\* history: the values lines 38-40 and 43 computed for the segments of chunk c
EntriesOf(c, response, offset) ==
    [k \in 1..Len(response) |->
        [chunk |-> c, index |-> SubtitleIndex(k),
         start |-> SegTime(response[k].start, offset),
         end |-> SegTime(response[k].end, offset),
         text |-> Strip(response[k].text)]]

(***************************************************************************)
(* split_audio.  den is frame_rate * frame_width * channels.  A chunk is   *)
(* the slice [start, end + frac/den) of the buffer, in milliseconds; the   *)
(* slice of a pydub AudioSegment is clamped to the buffer's length.        *)
(***************************************************************************)
\* line 18: floor and fractional part (numerator over den) of
\* max_chunk_size / den * 1000
DurFloor(max, den) == (max \div den) * 1000 + ((max % den) * 1000) \div den
DurFrac(max, den) == ((max % den) * 1000) % den

\* line 19: int(chunk_duration_ms), which truncates toward zero
DurInt(max, den) ==
    IF DurFloor(max, den) < 0 /\ DurFrac(max, den) # 0
    THEN DurFloor(max, den) + 1 ELSE DurFloor(max, den)

\* line 19: audio[s : s + chunk_duration_ms] of a buffer of d ms
Slice(s, d, max, den) ==
    IF s + DurFloor(max, den) >= d
    THEN [start |-> s, end |-> d, frac |-> 0, den |-> den]
    ELSE [start |-> s, end |-> s + DurFloor(max, den),
          frac |-> DurFrac(max, den), den |-> den]

\* line 19: range(0, len(audio), step) for step # 0, as the number of its values
RangeLen(d, step) == IF step < 0 THEN 0 ELSE (d + step - 1) \div step

ValueError == [error |-> "ValueError", chunks |-> <<>>]

split_audio(d, max, den) ==
    LET step == DurInt(max, den)
    IN IF step = 0 THEN ValueError    \* range() arg 3 must not be zero
       ELSE [error |-> None,
             chunks |-> [k \in 1..RangeLen(d, step) |-> Slice((k - 1) * step, d, max, den)]]

\* len(chunk): a slice's length in whole milliseconds (exact when frac = 0,
\* else rounded as pydub rounds a frame count to milliseconds)
ChunkLen(c) == c.end - c.start + (IF 2 * c.frac >= c.den THEN 1 ELSE 0)

(***************************************************************************)
(* Inputs.                                                                 *)
(***************************************************************************)
\* len(chunk) of the chunks handed to transcribe_audio_chunks (ms)
Durations == {5000, 7000}

RECURSIVE SeqsUpTo(_, _)
SeqsUpTo(S, n) ==
    IF n = 0 THEN {<<>>}
    ELSE LET shorter == SeqsUpTo(S, n - 1)
         IN shorter \cup {Append(q, x) : q \in {r \in shorter : Len(r) = n - 1}, x \in S}

ChunkLists == SeqsUpTo(Durations, MaxChunks)

\* segments the service may return: whole seconds, and times with a
\* sub-millisecond fraction; text with surrounding blanks and a line break
SegA == [start |-> 1000 * TicksPerMs, end |-> 2000 * TicksPerMs, text |-> <<" ", "a">>]
SegB == [start |-> 2000 * TicksPerMs + 1, end |-> 3000 * TicksPerMs + (TicksPerMs - 1),
         text |-> <<"b", NL, "c", " ">>]

\* a segment late in a 7000 ms chunk, past the end of a 5000 ms chunk
SegC == [start |-> 6500 * TicksPerMs, end |-> 6900 * TicksPerMs, text |-> <<"d">>]

Responses == {<<>>, <<SegA>>, <<SegA, SegB>>, <<SegB, SegA>>, <<SegC>>}

Pending == "pending"
Absent == [exists |-> FALSE, content |-> <<>>]
OldFile == [exists |-> TRUE, content |-> <<"o", "l", "d">>]

IdleDriver == [inputExists |-> FALSE, dur |-> 0, fileSize |-> 0,
               compressed |-> FALSE, usedSplit |-> FALSE, outFile0 |-> Absent]
IdleSplit == [d |-> 0, max |-> 0, den |-> 1, result |-> Pending]
IdleFmt == [in |-> 0, out |-> <<>>]

FirstRun == [run |-> 1, trace |-> <<>>, content |-> <<>>]

Event(ev, c, ok, response) == [ev |-> ev, chunk |-> c, ok |-> ok, response |-> response]

(***************************************************************************)
(* transcribe_audio_chunks.                                                *)
(***************************************************************************)
\* line 58: the for loop takes the next chunk, or ends
LoopTarget(idx, cs) == IF idx < Len(cs) THEN "export" ELSE "write"

\* lines 55-56
Begin ==
    /\ pc = "begin"
    /\ transcription_result' = <<>>
    /\ cumulative_start_time' = 0
    /\ i' = 0
    /\ brk' = FALSE
    /\ pc' = LoopTarget(0, chunks)
    /\ UNCHANGED <<chunks, tempFiles, outFile, log, retval, trace, entries, driver, split, fmt, prev>>

\* line 60: f"temp_chunk_{i}.mp3"
TempChunkPath(idx) ==
    <<"t", "e", "m", "p", "_", "c", "h", "u", "n", "k", "_">> \o Str(idx)
        \o <<".", "m", "p", "3">>

\* lines 60-61: chunk.export(temp_chunk_path), outside the try statement.
\* pydub opens the target file before it runs the encoder, so a failed
\* export may or may not leave the file behind; the exception leaves the
\* function.
Export ==
    /\ pc = "export"
    /\ \/ /\ tempFiles' = tempFiles \cup {TempChunkPath(i)}
          /\ trace' = Append(trace, Event("export", i, TRUE, <<>>))
          /\ pc' = "transcribe"
          /\ retval' = retval
       \/ /\ tempFiles' \in {tempFiles, tempFiles \cup {TempChunkPath(i)}}
          /\ trace' = Append(trace, Event("export", i, FALSE, <<>>))
          /\ pc' = "raised"
          /\ retval' = ExceptionRet
    /\ UNCHANGED <<chunks, i, transcription_result, cumulative_start_time, brk,
                   outFile, log, entries, driver, split, fmt, prev>>

\* line 72
AdvanceNone(offset, len) == offset
Advance(offset, len) == offset + len

\* lines 69: what the list holds after a successful chunk
AppendResult(result, srt_text) == Append(result, srt_text)

\* line 76: the failure is printed with the chunk's index
LogErrorNoIndex(l, c) == Append(l, [msg |-> "error", chunk |-> -1])
LogError(l, c) == Append(l, [msg |-> "error", chunk |-> c])

\* in a second run over the same responses, the service answers chunk c as
\* it did in the first run
Replays(c, ok, response) ==
    \/ prev.run = 1
    \/ \E k \in 1..Len(prev.trace) :
          /\ prev.trace[k].ev = "transcribe"
          /\ prev.trace[k].chunk = c
          /\ prev.trace[k].ok = ok
          /\ prev.trace[k].response = response

\* lines 63-77: the try body and the except clause
Transcribe ==
    /\ pc = "transcribe"
    /\ \/ \E response \in Responses :
            \* lines 66-72: the service answered and the answer was parsed
            /\ Replays(i, TRUE, response)
            /\ transcription_result' =
                   AppendResult(transcription_result,
                                parse_verbose_json_to_srt(response, cumulative_start_time))
            /\ entries' = entries \o EntriesOf(i, response, cumulative_start_time)
            /\ cumulative_start_time' = Advance(cumulative_start_time, chunks[i + 1])
            /\ trace' = Append(trace, Event("transcribe", i, TRUE, response))
            /\ UNCHANGED <<log, brk>>
       \/ \E why \in {"service", "malformed"} :
            \* lines 75-77: the call raised, or the response could not be parsed
            /\ Replays(i, FALSE, <<why>>)
            /\ log' = LogError(log, i)
            /\ brk' = TRUE
            /\ trace' = Append(trace, Event("transcribe", i, FALSE, <<why>>))
            /\ UNCHANGED <<transcription_result, entries, cumulative_start_time>>
    /\ pc' = "finally"
    /\ UNCHANGED <<chunks, i, tempFiles, outFile, retval, driver, split, fmt, prev>>

\* line 77 behind line 81: where control goes after the finally clause
AfterFinallyNoBreak(b, idx, cs) == LoopTarget(idx + 1, cs)
AfterFinally(b, idx, cs) == IF b THEN "write" ELSE LoopTarget(idx + 1, cs)

\* line 81: os.remove(temp_chunk_path)
RemoveNothing(files, idx) == files
RemoveTemp(files, idx) == files \ {TempChunkPath(idx)}

\* lines 80-81, then the break or the next iteration
Finally ==
    /\ pc = "finally"
    /\ tempFiles' = RemoveTemp(tempFiles, i)
    /\ trace' = Append(trace, Event("remove", i, TRUE, <<>>))
    /\ pc' = AfterFinally(brk, i, chunks)
    /\ i' = IF brk THEN i ELSE i + 1
    /\ UNCHANGED <<chunks, transcription_result, cumulative_start_time, brk,
                   outFile, log, retval, entries, driver, split, fmt, prev>>

\* lines 84-85: open(path, "w") truncates; the joined text is all the file holds
WriteAppended(old, result) == old.content \o Join(result, <<NL>>)
WriteContent(old, result) == Join(result, <<NL>>)

\* lines 84-87
Write ==
    /\ pc = "write"
    /\ outFile' = [exists |-> TRUE, content |-> WriteContent(outFile, transcription_result)]
    /\ log' = Append(log, [msg |-> "saved", chunk |-> -1])
    /\ trace' = Append(trace, Event("write", -1, TRUE, <<>>))
    /\ retval' = NoneRet
    /\ pc' = "done"
    /\ UNCHANGED <<chunks, i, transcription_result, cumulative_start_time, brk,
                   tempFiles, entries, driver, split, fmt, prev>>

OrchNext == Begin \/ Export \/ Transcribe \/ Finally \/ Write

Init ==
    /\ pc = "begin"
    /\ prev = FirstRun
    /\ chunks \in ChunkLists
    /\ i = 0
    /\ transcription_result = <<>>
    /\ cumulative_start_time = 0
    /\ brk = FALSE
    /\ tempFiles = {}
    /\ outFile = Absent
    /\ log = <<>>
    /\ retval = PendingRet
    /\ trace = <<>>
    /\ entries = <<>>
    /\ driver = IdleDriver
    /\ split = IdleSplit
    /\ fmt = IdleFmt

Next == OrchNext

Spec == Init /\ [][Next]_vars

\* the program is sequential and every call it makes returns or raises, so
\* a step that can be taken is taken
SpecLive == Init /\ [][Next]_vars /\ WF_vars(Next)

\* the function is called again on the same chunks once it has returned:
\* a new process (console and locals are fresh), the same file system
Rerun ==
    /\ pc = "done"
    /\ prev.run = 1
    /\ prev' = [run |-> 2, trace |-> trace, content |-> outFile.content]
    /\ pc' = "begin"
    /\ trace' = <<>>
    /\ entries' = <<>>
    /\ log' = <<>>
    /\ retval' = PendingRet
    /\ UNCHANGED <<chunks, i, transcription_result, cumulative_start_time, brk,
                   tempFiles, outFile, driver, split, fmt>>

RerunNext == OrchNext \/ Rerun

SpecRerun == Init /\ [][RerunNext]_vars

(***************************************************************************)
(* speechRecognize.  The size of the encoded file is the encoder's and is  *)
(* an input here, as is the length of the recording.                       *)
(***************************************************************************)
\* line 89: frame_rate * frame_width * channels of the compressed audio
\* (16 kHz, mono, 16-bit samples)
CompressedDen == 16000 * 2 * 1

\* recordings of 0, 1, 1, 2 and 3 chunks of MAX_CHUNK_SIZE bytes (786432 ms each)
DriverDurs == {0, 5000, 786432, 786433, 2 * 786432 + 7000}
FileSizes == {MAX_CHUNK_SIZE - 1, MAX_CHUNK_SIZE, MAX_CHUNK_SIZE + 1}

\* lines 109 and 125-126
AfterCheckAlways(exists) == "Compress"
AfterCheck(exists) == IF exists THEN "Compress" ELSE "aborted"

CheckInput ==
    /\ pc = "CheckInput"
    /\ pc' = AfterCheck(driver.inputExists)
    /\ log' = IF pc' = "aborted" THEN Append(log, [msg |-> "missing", chunk |-> -1]) ELSE log
    /\ retval' = IF pc' = "aborted" THEN NoneRet ELSE retval
    /\ UNCHANGED <<chunks, i, transcription_result, cumulative_start_time, brk,
                   tempFiles, outFile, trace, entries, driver, split, fmt, prev>>

\* lines 110-113: compress_and_convert_audio writes audio_compressed.mp3
Compress ==
    /\ pc = "Compress"
    /\ driver' = [driver EXCEPT !.compressed = TRUE]
    /\ log' = Append(log, [msg |-> "compressed", chunk |-> -1])
    /\ pc' = "DecideChunking"
    /\ UNCHANGED <<chunks, i, transcription_result, cumulative_start_time, brk,
                   tempFiles, outFile, retval, trace, entries, split, fmt, prev>>

\* line 116
SizeExceedsOrEqual(size) == size >= MAX_CHUNK_SIZE
SizeExceeds(size) == size > MAX_CHUNK_SIZE

\* lines 116-124: split, or the whole file as one chunk; then transcribe
DecideChunking ==
    /\ pc = "DecideChunking"
    /\ LET r == split_audio(driver.dur, MAX_CHUNK_SIZE, CompressedDen)
       IN IF SizeExceeds(driver.fileSize)
          THEN /\ driver' = [driver EXCEPT !.usedSplit = TRUE]
               /\ log' = Append(log, [msg |-> "splitting", chunk |-> -1])
               /\ IF r.error # None
                  THEN /\ pc' = "raised"
                       /\ retval' = ExceptionRet
                       /\ chunks' = chunks
                  ELSE /\ pc' = "begin"
                       /\ retval' = retval
                       /\ chunks' = [k \in 1..Len(r.chunks) |-> ChunkLen(r.chunks[k])]
          ELSE /\ driver' = driver
               /\ log' = Append(log, [msg |-> "direct", chunk |-> -1])
               /\ pc' = "begin"
               /\ retval' = retval
               /\ chunks' = <<driver.dur>>
    /\ UNCHANGED <<i, transcription_result, cumulative_start_time, brk,
                   tempFiles, outFile, trace, entries, split, fmt, prev>>

DriverInit ==
    /\ pc = "CheckInput"
    /\ prev = FirstRun
    /\ outFile \in {Absent, OldFile}
    /\ driver \in {[inputExists |-> e, dur |-> d, fileSize |-> z, compressed |-> FALSE,
                    usedSplit |-> FALSE, outFile0 |-> outFile] :
                       e \in BOOLEAN, d \in DriverDurs, z \in FileSizes}
    /\ chunks = <<>>
    /\ i = 0
    /\ transcription_result = <<>>
    /\ cumulative_start_time = 0
    /\ brk = FALSE
    /\ tempFiles = {}
    /\ log = <<>>
    /\ retval = PendingRet
    /\ trace = <<>>
    /\ entries = <<>>
    /\ split = IdleSplit
    /\ fmt = IdleFmt

DriverNext == CheckInput \/ Compress \/ DecideChunking \/ OrchNext

SpecDriver == DriverInit /\ [][DriverNext]_vars

(***************************************************************************)
(* split_audio and format_time on their own, over bounded inputs.          *)
(***************************************************************************)
\* frame_rate * frame_width * channels: 1 kHz mono 8-bit, 2 kHz mono 8-bit,
\* 1 kHz stereo 8-bit (frame_width 2)
SplitDens == {1000 * 1 * 1, 2000 * 1 * 1, 1000 * 2 * 2}

SplitInit ==
    /\ pc = "split"
    /\ prev = FirstRun
    /\ split \in [d : 0..MaxDur, max : (-MaxBytes)..MaxBytes, den : SplitDens,
                  result : {Pending}]
    /\ chunks = <<>>
    /\ i = 0
    /\ transcription_result = <<>>
    /\ cumulative_start_time = 0
    /\ brk = FALSE
    /\ tempFiles = {}
    /\ outFile = Absent
    /\ log = <<>>
    /\ retval = PendingRet
    /\ trace = <<>>
    /\ entries = <<>>
    /\ driver = IdleDriver
    /\ fmt = IdleFmt

SplitCall ==
    /\ pc = "split"
    /\ split' = [split EXCEPT !.result = split_audio(split.d, split.max, split.den)]
    /\ pc' = "split_done"
    /\ UNCHANGED <<orchVars, driver, fmt, prev>>

SpecSplit == SplitInit /\ [][SplitCall]_vars

FmtInputs ==
    {h * 3600000 + mi * 60000 + sec * 1000 + ms :
        h \in {0, 1, 99, 100, MaxHours}, mi \in {0, 1, 59},
        sec \in {0, 1, 59}, ms \in {0, 1, 999}}

FmtInit ==
    /\ pc = "fmt"
    /\ prev = FirstRun
    /\ fmt \in [in : FmtInputs, out : {<<>>}]
    /\ chunks = <<>>
    /\ i = 0
    /\ transcription_result = <<>>
    /\ cumulative_start_time = 0
    /\ brk = FALSE
    /\ tempFiles = {}
    /\ outFile = Absent
    /\ log = <<>>
    /\ retval = PendingRet
    /\ trace = <<>>
    /\ entries = <<>>
    /\ driver = IdleDriver
    /\ split = IdleSplit

FmtCall ==
    /\ pc = "fmt"
    /\ fmt' = [fmt EXCEPT !.out = format_time(fmt.in * TicksPerMs)]
    /\ pc' = "fmt_done"
    /\ UNCHANGED <<orchVars, driver, split, prev>>

SpecFmt == FmtInit /\ [][FmtCall]_vars

(***************************************************************************)
(* Reading an SRT text back: lines, blocks, numbers, timestamps.           *)
(***************************************************************************)
HasNL(s) == \E k \in 1..Len(s) : s[k] = NL
FirstNL(s) == CHOOSE k \in 1..Len(s) : s[k] = NL /\ \A j \in 1..(k - 1) : s[j] # NL

RECURSIVE SplitLines(_)
\* s.split("\n")
SplitLines(s) ==
    IF ~HasNL(s) THEN <<s>>
    ELSE <<SubSeq(s, 1, FirstNL(s) - 1)>> \o SplitLines(SubSeq(s, FirstNL(s) + 1, Len(s)))

IsDigits(s) == Len(s) > 0 /\ \A k \in 1..Len(s) : \E d \in 1..10 : DigitChars[d] = s[k]
DigitVal(c) == (CHOOSE d \in 1..10 : DigitChars[d] = c) - 1

RECURSIVE NatOf(_)
NatOf(s) == IF Len(s) = 0 THEN 0
            ELSE NatOf(SubSeq(s, 1, Len(s) - 1)) * 10 + DigitVal(s[Len(s)])

\* the number a string of digits writes, -1 for any other string
ParseNat(s) == IF IsDigits(s) THEN NatOf(s) ELSE -1

\* the fields of HH:MM:SS,mmm, read from the right (HH is as wide as it is)
TimeFields(s) ==
    LET n == Len(s)
    IN IF n < 12 \/ s[n - 3] # "," \/ s[n - 6] # ":" \/ s[n - 9] # ":"
       THEN [ok |-> FALSE, h |-> -1, mi |-> -1, sec |-> -1, ms |-> -1, hw |-> 0]
       ELSE [ok |-> TRUE,
             h |-> ParseNat(SubSeq(s, 1, n - 10)),
             mi |-> ParseNat(SubSeq(s, n - 8, n - 7)),
             sec |-> ParseNat(SubSeq(s, n - 5, n - 4)),
             ms |-> ParseNat(SubSeq(s, n - 2, n)),
             hw |-> n - 10]

\* milliseconds a timestamp writes, -1 if it is none
ParseTime(s) ==
    LET f == TimeFields(s)
    IN IF f.ok /\ f.h >= 0 /\ f.mi >= 0 /\ f.sec >= 0 /\ f.ms >= 0
       THEN f.h * 3600000 + f.mi * 60000 + f.sec * 1000 + f.ms ELSE -1

\* the lines of a text at which a block starts: a non-empty line that is
\* the first line or follows an empty line
BlockStarts(lines) ==
    SelectSeq([p \in 1..Len(lines) |-> p],
              LAMBDA p : lines[p] # <<>> /\ (p = 1 \/ lines[p - 1] = <<>>))

\* the index lines of the blocks of a text, in order, as numbers
OutputIndices(text) ==
    LET lines == SplitLines(text)
        starts == BlockStarts(lines)
    IN [b \in 1..Len(starts) |-> ParseNat(lines[starts[b]])]

\* start and end (ms) written on the timecode line of a block
TimecodeOf(line) ==
    LET sp == CHOOSE k \in 1..Len(line) : line[k] = " " /\ \A j \in 1..(k - 1) : line[j] # " "
    IN IF ~(\E k \in 1..Len(line) : line[k] = " ") \/ Len(line) < sp + 5
          \/ SubSeq(line, sp, sp + 4) # <<" ", "-", "-", ">", " ">>
       THEN [start |-> -1, end |-> -1]
       ELSE [start |-> ParseTime(SubSeq(line, 1, sp - 1)),
             end |-> ParseTime(SubSeq(line, sp + 5, Len(line)))]

OutputTimecodes(text) ==
    LET lines == SplitLines(text)
        starts == BlockStarts(lines)
    IN [b \in 1..Len(starts) |->
          IF starts[b] + 1 <= Len(lines) THEN TimecodeOf(lines[starts[b] + 1])
          ELSE [start |-> -1, end |-> -1]]

(***************************************************************************)
(* What the history says happened.                                         *)
(***************************************************************************)
\* the transcribe events of the chunks transcribed successfully, in order
OkEvents == SelectSeq(trace, LAMBDA e : e.ev = "transcribe" /\ e.ok)
FailedChunks == {trace[k].chunk : k \in {j \in 1..Len(trace) : trace[j].ev = "transcribe" /\ ~trace[j].ok}}

RECURSIVE SumLens(_)
SumLens(evs) == IF Len(evs) = 0 THEN 0 ELSE Len(evs[1].response) + SumLens(Tail(evs))

\* N: the segments returned by all successfully processed chunks
TotalSegments == SumLens(OkEvents)

RECURSIVE SumDurations(_, _)
\* the durations of chunks 0..c-1 together (ms)
SumDurations(cs, c) == IF c = 0 THEN 0 ELSE cs[c] + SumDurations(cs, c - 1)

RECURSIVE NumDigits(_)
NumDigits(n) == IF n < 10 THEN 1 ELSE 1 + NumDigits(n \div 10)

(***************************************************************************)
(* C6: for every integer m >= 0, format_time(m) writes HH:MM:SS,mmm with   *)
(* HH = floor(m/3600000), MM = floor((m mod 3600000)/60000),               *)
(* SS = floor((m mod 60000)/1000), mmm = m mod 1000; MM < 60, SS < 60,     *)
(* mmm < 1000, the fields add up to m; MM and SS are two digits wide, mmm  *)
(* three, HH at least two and never cut.                                   *)
(***************************************************************************)
C6_FormatTimeFields ==
    pc = "fmt_done" =>
        LET m == fmt.in
            f == TimeFields(fmt.out)
        IN /\ f.ok
           /\ f.h = m \div 3600000
           /\ f.mi = (m % 3600000) \div 60000
           /\ f.sec = (m % 60000) \div 1000
           /\ f.ms = m % 1000
           /\ f.mi < 60 /\ f.sec < 60 /\ f.ms < 1000
           /\ f.h * 3600000 + f.mi * 60000 + f.sec * 1000 + f.ms = m
           /\ f.hw = (IF f.h < 100 THEN 2 ELSE NumDigits(f.h))

C6_Witness ==
    /\ pc = "fmt_done"
    /\ fmt.in = 100 * 3600000 + 59 * 60000 + 59 * 1000 + 999
    /\ fmt.out = <<"1", "0", "0", ":", "5", "9", ":", "5", "9", ",", "9", "9", "9">>

(***************************************************************************)
(* C1: when transcribe_audio_chunks has written the output, the subtitle   *)
(* indices in it, read in output order, are exactly 1, 2, ..., N, where N  *)
(* is the number of segments returned by all successfully processed chunks.*)
(***************************************************************************)
C1_IndicesGlobal ==
    pc = "done" => OutputIndices(outFile.content) = [k \in 1..TotalSegments |-> k]

(***************************************************************************)
(* C2: every subtitle entry derived from a segment of a successfully       *)
(* transcribed chunk k has start and end equal to the segment's time in    *)
(* the chunk plus the durations of chunks 0..k-1 together; the timestamps  *)
(* written to the output are these values' whole milliseconds.             *)
(***************************************************************************)
C2_AbsoluteTimes ==
    /\ \A n \in 1..Len(OkEvents) :
          LET e == OkEvents[n]
              mine == SelectSeq(entries, LAMBDA x : x.chunk = e.chunk)
              off == SumDurations(chunks, e.chunk) * TicksPerMs
          IN /\ Len(mine) = Len(e.response)
             /\ \A k \in 1..Len(mine) :
                   /\ mine[k].start = e.response[k].start + off
                   /\ mine[k].end = e.response[k].end + off
    /\ pc = "done" =>
          LET tc == OutputTimecodes(outFile.content)
          IN /\ Len(tc) = Len(entries)
             /\ \A k \in 1..Len(tc) :
                   /\ tc[k].start = entries[k].start \div TicksPerMs
                   /\ tc[k].end = entries[k].end \div TicksPerMs

\* chunks of 5000 ms and 7000 ms; a segment 1.0-2.0 s of the second chunk
\* is written as 6000 ms - 7000 ms
C2_Witness ==
    /\ pc = "done"
    /\ chunks = <<5000, 7000>>
    /\ \E k \in 1..Len(entries) :
          /\ entries[k].chunk = 1
          /\ entries[k].start = 6000 * TicksPerMs
          /\ entries[k].end = 7000 * TicksPerMs
          /\ OutputTimecodes(outFile.content)[k] = [start |-> 6000, end |-> 7000]

(***************************************************************************)
(* C3: if transcription fails on chunk c, no chunk after c is exported or  *)
(* sent to the service, what chunks 0..c-1 accumulated is kept as it was,  *)
(* the function goes on to write the output and returns without an         *)
(* exception, and the output holds exactly the entries of chunks 0..c-1.   *)
(***************************************************************************)
C3_StopsAtFailure ==
    \A c \in FailedChunks :
        /\ \A k \in 1..Len(trace) :
              trace[k].ev \in {"export", "transcribe"} => trace[k].chunk <= c
        /\ \A k \in 1..Len(entries) : entries[k].chunk < c
        /\ Len(OkEvents) = c
        /\ \A n \in 1..Len(OkEvents) : OkEvents[n].chunk = n - 1
        /\ Len(entries) = TotalSegments
        /\ transcription_result =
              [n \in 1..c |-> parse_verbose_json_to_srt(OkEvents[n].response,
                                                        SumDurations(chunks, n - 1))]
        /\ pc \in {"finally", "write", "done"}
        /\ retval.kind # "exception"
        /\ pc = "done" =>
              /\ outFile.exists
              /\ outFile.content = Join(transcription_result, <<NL>>)
              /\ LET tc == OutputTimecodes(outFile.content)
                 IN /\ Len(tc) = Len(entries)
                    /\ \A k \in 1..Len(tc) :
                          tc[k].start = entries[k].start \div TicksPerMs

C3_Witness ==
    /\ pc = "done"
    /\ Len(chunks) = 3
    /\ FailedChunks = {1}
    /\ Len(entries) = 2
    /\ Len(OutputIndices(outFile.content)) = 2

(***************************************************************************)
(* C5: the temporary file of chunk i is deleted on every exit path of      *)
(* iteration i, so no temp_chunk_* file exists when the next iteration     *)
(* starts or when transcribe_audio_chunks ends, normally or by an error.   *)
(***************************************************************************)
C5_TempFilesDeleted ==
    pc \in {"export", "write", "done", "raised"} => tempFiles = {}

(***************************************************************************)
(* C7: in the output, every two consecutive subtitle blocks are separated  *)
(* by exactly one blank line: every entry is a block of its own, and no    *)
(* two blank lines in a row stand between two blocks.                      *)
(***************************************************************************)
C7_OneBlankLine ==
    pc = "done" =>
        LET lines == SplitLines(outFile.content)
        IN /\ Len(BlockStarts(lines)) = TotalSegments
           /\ \A p \in 1..(Len(lines) - 1) :
                 (lines[p] = <<>> /\ lines[p + 1] = <<>>) =>
                     ~ /\ \E a \in 1..(p - 1) : lines[a] # <<>>
                       /\ \E b \in (p + 2)..Len(lines) : lines[b] # <<>>

(***************************************************************************)
(* C10 as stated: the result of a run in which a chunk's transcription     *)
(* failed is marked truncated (wasTruncated = true), and the result of a   *)
(* run in which every chunk succeeded is not.                              *)
(***************************************************************************)
C10_MarkedTruncated ==
    pc = "done" =>
        IF FailedChunks # {}
        THEN retval.kind = "result" /\ retval.wasTruncated
        ELSE ~(retval.kind = "result" /\ retval.wasTruncated)

(***************************************************************************)
(* C10 as amended: the console shows a failure line with chunk index c     *)
(* exactly when the transcription of chunk c failed (none when every       *)
(* chunk succeeded), and the function returns None: the failure line is    *)
(* the only mark of a truncated run.                                       *)
(***************************************************************************)
C10_FailureLogged ==
    /\ \A c \in FailedChunks : \E k \in 1..Len(log) : log[k] = [msg |-> "error", chunk |-> c]
    /\ \A k \in 1..Len(log) : log[k].msg = "error" => log[k].chunk \in FailedChunks
    /\ Cardinality({k \in 1..Len(log) : log[k].msg = "error"}) = Cardinality(FailedChunks)
    /\ pc = "done" => retval = NoneRet

C10_Witness ==
    /\ pc = "done"
    /\ FailedChunks = {1}
    /\ \E k \in 1..Len(log) : log[k] = [msg |-> "error", chunk |-> 1]
    /\ retval = NoneRet

(***************************************************************************)
(* C9: when the input file is absent, speechRecognize does nothing but     *)
(* report it: no compression, no chunking, no export, no transcription     *)
(* call, no temp file, and the output file is left as it was.              *)
(***************************************************************************)
C9_MissingInputAborts ==
    ~driver.inputExists =>
        /\ pc \in {"CheckInput", "aborted"}
        /\ ~driver.compressed
        /\ ~driver.usedSplit
        /\ chunks = <<>>
        /\ trace = <<>>
        /\ tempFiles = {}
        /\ outFile = driver.outFile0
        /\ pc = "aborted" => log = <<[msg |-> "missing", chunk |-> -1]>> /\ retval = NoneRet

C9_Witness ==
    /\ pc = "aborted"
    /\ ~driver.inputExists
    /\ outFile = OldFile
    /\ log = <<[msg |-> "missing", chunk |-> -1]>>

(***************************************************************************)
(* C4: for a buffer of D >= 0 ms and a chunk duration C > 0, the chunks    *)
(* split_audio returns are contiguous and do not overlap, their durations  *)
(* sum to D, the last one ends at the buffer's end, and there are          *)
(* ceil(D / C) of them (none for D = 0).                                   *)
(***************************************************************************)
RECURSIVE SumChunkTicks(_)
\* the chunks' exact durations together, in units of 1/den ms
SumChunkTicks(cs) ==
    IF Len(cs) = 0 THEN 0
    ELSE (cs[1].end - cs[1].start) * cs[1].den + cs[1].frac + SumChunkTicks(Tail(cs))

C4_ChunksPartition ==
    (pc = "split_done" /\ split.max > 0 /\ split.result.error = None) =>
        LET cs == split.result.chunks
            n == Len(cs)
        IN /\ n = (split.d * split.den + split.max * 1000 - 1) \div (split.max * 1000)
           /\ n > 0 => cs[1].start = 0 /\ cs[n].end = split.d /\ cs[n].frac = 0
           /\ \A k \in 1..(n - 1) : cs[k].frac = 0 /\ cs[k].end = cs[k + 1].start
           /\ SumChunkTicks(cs) = split.d * split.den

(***************************************************************************)
(* C8: called with max_chunk_size <= 0, or with a budget that makes the    *)
(* chunk duration less than one millisecond, split_audio fails with an     *)
(* error; it returns no empty chunk list for a non-empty buffer.           *)
(***************************************************************************)
C8_FailsFast ==
    pc = "split_done" =>
        /\ (split.max <= 0 \/ split.max * 1000 < split.den) => split.result.error # None
        /\ (split.d > 0 /\ split.result.error = None) => Len(split.result.chunks) > 0

(***************************************************************************)
(* C11: in a run of speechRecognize whose input exists and in which no I/O *)
(* error occurs, the output file is written exactly once, after the        *)
(* processing of chunks has stopped, and holds the joined text alone       *)
(* whatever it held before; if the first chunk's transcription fails it is *)
(* written empty and the run reaches its end.                              *)
(***************************************************************************)
WriteEvents == {k \in 1..Len(trace) : trace[k].ev = "write"}

C11_WrittenOnce ==
    driver.inputExists =>
        /\ Cardinality(WriteEvents) <= 1
        /\ WriteEvents # {} => pc = "done" /\ WriteEvents = {Len(trace)}
        /\ WriteEvents = {} => outFile = driver.outFile0
        /\ pc # "raised" => (pc = "done" \/ ENABLED DriverNext)
        /\ pc = "done" =>
              /\ Cardinality(WriteEvents) = 1
              /\ outFile.exists
              /\ Len(BlockStarts(SplitLines(outFile.content))) = TotalSegments
              /\ 0 \in FailedChunks => outFile.content = <<>>

C11_Witness ==
    /\ pc = "done"
    /\ driver.inputExists
    /\ driver.outFile0 = OldFile
    /\ FailedChunks = {0}
    /\ outFile = [exists |-> TRUE, content |-> <<>>]

(***************************************************************************)
(* C12: the timestamp written for a segment time t (seconds) under an      *)
(* offset is the rendering of the integer round(t * 1000) + offsetMs: the  *)
(* time is rounded to the nearest millisecond, not truncated.              *)
(***************************************************************************)
\* round() of t ticks to whole milliseconds, halves to the even neighbour
RoundMs(t) ==
    LET q == t \div TicksPerMs
        r == t % TicksPerMs
    IN IF 2 * r > TicksPerMs THEN q + 1
       ELSE IF 2 * r < TicksPerMs THEN q
       ELSE IF q % 2 = 0 THEN q ELSE q + 1

C12_RoundedTimestamps ==
    pc = "done" =>
        LET tc == OutputTimecodes(outFile.content)
        IN /\ Len(tc) = Len(entries)
           /\ \A k \in 1..Len(tc) :
                 LET off == SumDurations(chunks, entries[k].chunk)
                 IN /\ tc[k].start = RoundMs(entries[k].start - off * TicksPerMs) + off
                    /\ tc[k].end = RoundMs(entries[k].end - off * TicksPerMs) + off

(***************************************************************************)
(* C13: if every chunk's response lists its segments ordered by start,     *)
(* with 0 <= start <= end <= the chunk's duration, the start times of the  *)
(* entries are non-decreasing in output order, inside a chunk and across   *)
(* chunk boundaries.                                                       *)
(***************************************************************************)
WellFormed(e) ==
    /\ \A k \in 1..Len(e.response) :
          /\ 0 <= e.response[k].start
          /\ e.response[k].start <= e.response[k].end
          /\ e.response[k].end <= chunks[e.chunk + 1] * TicksPerMs
    /\ \A k \in 1..(Len(e.response) - 1) : e.response[k].start <= e.response[k + 1].start

AllWellFormed == \A n \in 1..Len(OkEvents) : WellFormed(OkEvents[n])

C13_StartsNonDecreasing ==
    AllWellFormed =>
        /\ \A k \in 1..(Len(entries) - 1) : entries[k].start <= entries[k + 1].start
        /\ pc = "done" =>
              LET tc == OutputTimecodes(outFile.content)
              IN /\ Len(tc) = TotalSegments
                 /\ \A k \in 1..(Len(tc) - 1) : tc[k].start <= tc[k + 1].start

C13_Witness ==
    /\ pc = "done"
    /\ AllWellFormed
    /\ Len(OkEvents) = 3
    /\ OkEvents[1].response = <<SegA, SegB>>
    /\ OkEvents[2].response = <<SegC>>
    /\ OkEvents[3].response = <<SegA>>
    /\ Len(OutputTimecodes(outFile.content)) = 4

(***************************************************************************)
(* One SRT entry on its own (lines 38-45), over bounded inputs: an index,  *)
(* whole-millisecond segment times, an offset and a raw text.              *)
(***************************************************************************)
RenderInputs ==
    [index : {1, 2, 10, 123},
     start : {0, 1001, 3599999},
     end : {0, 2000, 360000000},
     offset : {0, 5000},
     text : {<<" ", "a">>, <<"b", NL, "c", " ">>, <<"1", NL, NL, "2">>, <<" ">>}]

RenderInit ==
    /\ pc = "render"
    /\ prev = FirstRun
    /\ fmt \in [in : RenderInputs, out : {<<>>}]
    /\ chunks = <<>>
    /\ i = 0
    /\ transcription_result = <<>>
    /\ cumulative_start_time = 0
    /\ brk = FALSE
    /\ tempFiles = {}
    /\ outFile = Absent
    /\ log = <<>>
    /\ retval = PendingRet
    /\ trace = <<>>
    /\ entries = <<>>
    /\ driver = IdleDriver
    /\ split = IdleSplit

RenderCall ==
    /\ pc = "render"
    /\ fmt' = [fmt EXCEPT !.out =
                  SrtEntry(fmt.in.index,
                           [start |-> fmt.in.start * TicksPerMs,
                            end |-> fmt.in.end * TicksPerMs,
                            text |-> fmt.in.text],
                           fmt.in.offset)]
    /\ pc' = "render_done"
    /\ UNCHANGED <<orchVars, driver, split, prev>>

SpecRender == RenderInit /\ [][RenderCall]_vars

(***************************************************************************)
(* C14: rendering a subtitle entry {index, startMs, endMs, text} to its    *)
(* SRT block and parsing the block back recovers index, startMs, endMs and *)
(* text exactly, for non-negative whole-millisecond times and any trimmed  *)
(* text, line breaks included.                                             *)
(***************************************************************************)
\* an SRT block read back: first line the index, second the timecode, the
\* rest, without the closing line break, the text
ParseBlock(b) ==
    LET lines == SplitLines(b)
        n == Len(lines)
    IN IF n < 4 \/ lines[n] # <<>>
       THEN [index |-> -1, startMs |-> -1, endMs |-> -1, text |-> <<>>]
       ELSE [index |-> ParseNat(lines[1]),
             startMs |-> TimecodeOf(lines[2]).start,
             endMs |-> TimecodeOf(lines[2]).end,
             text |-> Join(SubSeq(lines, 3, n - 1), <<NL>>)]

C14_RoundTrip ==
    pc = "render_done" =>
        ParseBlock(fmt.out) = [index |-> fmt.in.index,
                               startMs |-> fmt.in.start + fmt.in.offset,
                               endMs |-> fmt.in.end + fmt.in.offset,
                               text |-> Strip(fmt.in.text)]

C14_Witness ==
    /\ pc = "render_done"
    /\ fmt.in = [index |-> 10, start |-> 3599999, end |-> 360000000, offset |-> 5000,
                 text |-> <<"b", NL, "c", " ">>]
    /\ ParseBlock(fmt.out) = [index |-> 10, startMs |-> 3604999, endMs |-> 360005000,
                              text |-> <<"b", NL, "c">>]

(***************************************************************************)
(* C15: a second run over the same chunks with the same per-chunk          *)
(* transcription outcomes writes the same text as the first, byte for      *)
(* byte: nothing the first run left behind (its output file, its           *)
(* accumulated state) reaches the second run's output.                     *)
(***************************************************************************)
C15_SameOutput ==
    (prev.run = 2 /\ pc = "done") => outFile = [exists |-> TRUE, content |-> prev.content]

C15_Witness ==
    /\ prev.run = 2
    /\ pc = "done"
    /\ FailedChunks = {2}
    /\ Len(entries) = 3
    /\ outFile.content = prev.content

(***************************************************************************)
(* C16 as stated: after the transcription attempt of chunk i, whether it   *)
(* succeeded or failed, the cumulative offset has grown by that chunk's    *)
(* duration: it is the sum of the durations of chunks 0..i.                *)
(***************************************************************************)
C16_AdvancesOnEveryAttempt ==
    pc = "finally" => cumulative_start_time = SumDurations(chunks, i + 1)

(***************************************************************************)
(* C16 as amended: the cumulative offset is 0 before the first chunk,      *)
(* never decreases, and grows by exactly the chunk's duration after each   *)
(* successful attempt; a failed attempt leaves it as it was (and ends the  *)
(* loop); at the start of iteration i it is the sum of the durations of    *)
(* chunks 0..i-1.                                                          *)
(***************************************************************************)
C16_OffsetIsPrefixSum ==
    /\ cumulative_start_time = SumDurations(chunks, Len(OkEvents))
    /\ pc \in {"export", "transcribe"} => cumulative_start_time = SumDurations(chunks, i)
    /\ pc = "finally" =>
          cumulative_start_time = SumDurations(chunks, IF brk THEN i ELSE i + 1)

C16_Witness ==
    /\ pc = "finally"
    /\ brk
    /\ chunks = <<5000, 7000, 5000>>
    /\ i = 1
    /\ cumulative_start_time = 5000

(***************************************************************************)
(* C17: chunks are processed strictly in index order from 0, each at most  *)
(* once; the temp file of chunk i+1 is created only after that of chunk i  *)
(* was deleted, so at most one temp chunk file exists at any moment; the   *)
(* temp file names of different chunk indices differ.                      *)
(***************************************************************************)
ExportEvents == SelectSeq(trace, LAMBDA e : e.ev = "export")
TranscribeEvents == SelectSeq(trace, LAMBDA e : e.ev = "transcribe")

C17_OneTempFileInOrder ==
    /\ Cardinality(tempFiles) <= 1
    /\ \A n \in 1..Len(ExportEvents) : ExportEvents[n].chunk = n - 1
    /\ \A n \in 1..Len(TranscribeEvents) : TranscribeEvents[n].chunk = n - 1
    /\ \A k \in 1..Len(trace) :
          (trace[k].ev = "export" /\ trace[k].chunk > 0) =>
              \E j \in 1..(k - 1) :
                  trace[j].ev = "remove" /\ trace[j].chunk = trace[k].chunk - 1
    /\ \A b \in 0..(Len(chunks) + 10) : b # i => TempChunkPath(b) # TempChunkPath(i)

C17_Witness ==
    /\ pc = "transcribe"
    /\ i = 2
    /\ tempFiles = {TempChunkPath(2)}
    /\ Len(ExportEvents) = 3

(***************************************************************************)
(* C18: speechRecognize decides chunking from the size of the encoded file *)
(* alone: at most the byte budget (the budget itself included) gives       *)
(* exactly one chunk covering the whole buffer, without split_audio; above *)
(* the budget split_audio is called; the decision comes after the encode   *)
(* step and before any export or transcription.                            *)
(***************************************************************************)
Decided == \E k \in 1..Len(log) : log[k].msg \in {"direct", "splitting"}

C18_ChunkingBySize ==
    driver.inputExists =>
        /\ ~Decided =>
              /\ pc \in {"CheckInput", "Compress", "DecideChunking"}
              /\ ~driver.usedSplit /\ chunks = <<>> /\ trace = <<>> /\ tempFiles = {}
        /\ pc = "DecideChunking" => driver.compressed
        /\ Decided =>
              /\ driver.compressed
              /\ driver.usedSplit = (driver.fileSize > MAX_CHUNK_SIZE)
              /\ driver.fileSize <= MAX_CHUNK_SIZE => chunks = <<driver.dur>>
              /\ SumDurations(chunks, Len(chunks)) = driver.dur
              /\ Cardinality({k \in 1..Len(log) : log[k].msg \in {"direct", "splitting"}}) = 1

C18_Witness ==
    /\ pc = "done"
    /\ driver.inputExists
    /\ driver.fileSize = MAX_CHUNK_SIZE
    /\ driver.dur = 2 * 786432 + 7000
    /\ chunks = <<2 * 786432 + 7000>>
    /\ ~driver.usedSplit
    /\ Len(ExportEvents) = 1

(***************************************************************************)
(* C19: for every chunk list and every pattern of successes and failures,  *)
(* transcribe_audio_chunks terminates; it calls the transcription service  *)
(* at most once per chunk, in order, never again after a failure: the      *)
(* number of calls is at most the first failing index + 1, or the number   *)
(* of chunks when none fails.                                              *)
(***************************************************************************)
CallsBounded ==
    /\ \A n \in 1..Len(TranscribeEvents) : TranscribeEvents[n].chunk = n - 1
    /\ Len(TranscribeEvents) <= Len(chunks)
    /\ \A c \in FailedChunks : Len(TranscribeEvents) = c + 1

C19_TerminatesCallsOnce ==
    /\ <>(pc \in {"done", "raised"})
    /\ [](CallsBounded)
    /\ []((pc = "done" /\ FailedChunks = {}) => Len(TranscribeEvents) = Len(chunks))

C19_Witness ==
    /\ pc = "done"
    /\ Len(chunks) = 3
    /\ FailedChunks = {1}
    /\ Len(TranscribeEvents) = 2

====
